---- MODULE Spec2Model ----
(***************************************************************************)
(* Recommendation service: the user-based and item-based recommendation    *)
(* handlers (routers/recommendations.py), the movie routes                 *)
(* (routers/movies.py), the interaction insert (routers/interactions.py),  *)
(* the token check (core/security.py) and the MongoDB and Redis            *)
(* dependencies (core/database.py), over a MongoDB movie collection, a     *)
(* MongoDB interaction collection and a Redis cache.                       *)
(*                                                                         *)
(* Strings that the code joins, splits or prefixes (movie ids, user ids,   *)
(* cache keys, cache values) are sequences of one-character strings, so    *)
(* that ",".join, str.split(",") and the f-string keys are computed.       *)
(* Every handler is "async def" without an await in its body, so a handler *)
(* runs to completion on the event loop of its process: one action per     *)
(* handler.  Several worker processes interleave at the round trips to the *)
(* store and the cache: SpecConcurrent steps each handler one round trip   *)
(* at a time.                                                              *)
(*                                                                         *)
(* The movie collection is any sub-collection of a three-movie catalogue,  *)
(* each movie with or without its embedding, fixed in a behaviour (nothing *)
(* under the routers writes it); SpecStore lets the catalogue loader       *)
(* change it, SpecLarge takes collections above the caps of 10 and 500,    *)
(* SpecKeys ids that look like cache keys, SpecAuth every route with its   *)
(* dependencies and any bearer token.  Movie ids hold no comma.  Whether   *)
(* a fetched document validates as a response model is the document's      *)
(* shape, which the collection does not constrain: a request input.        *)
(***************************************************************************)
EXTENDS Integers, Sequences, FiniteSets, TLC

VARIABLES
    movies,        \* db["movies"]: the documents in natural (find) order
    interactions,  \* db["interactions"]: the documents in insertion order
    cache,         \* Redis: key -> [value, ex], defined on the live keys
    response,      \* the HTTP response of the last request
    trace,         \* the store and cache round trips the last request made
    credentials,   \* the bearer token the last request presented
    requests       \* the requests in flight on concurrent workers

vars == <<movies, interactions, cache, response, trace, credentials, requests>>

----------------------------------------------------------------------------
(* Bounds of the model *)

MaxLog == 1        \* interaction documents inserted in one behaviour

Users == {<<"u", "1">>, <<"u", "2">>}

MovieIds == {<<"t", "t", "1">>, <<"t", "t", "2">>, <<"t", "t", "3">>}

\* the catalogue order in which the movie collection holds its documents
Catalogue == << <<"t", "t", "1">>, <<"t", "t", "2">>, <<"t", "t", "3">> >>

\* the embedding each catalogue movie has once it is embedded: against "tt1"
\* the movie "tt3" scores above "tt2", against "tt2" the other two tie
CatalogueEmbedding == << <<1, 0>>, <<0, 1>>, <<1, 0>> >>

NoEmbedding == << >>   \* the document has no "embedding" field

\* the movies item-based recommendations are asked for
Targets == {<<"t", "t", "1">>, <<"t", "t", "2">>}

\* the request bodies of POST /interactions/
InteractionBodies ==
    {[movieId_ml |-> <<"t", "t", "1">>, type |-> "view", value |-> 1],
     [movieId_ml |-> <<"t", "t", "2">>, type |-> "rating", value |-> 5],
     [movieId_ml |-> <<"t", "t", "3">>, type |-> "like", value |-> 0]}

----------------------------------------------------------------------------
(* Helpers *)

Range(s) == {s[i] : i \in 1..Len(s)}

Min(a, b) == IF a <= b THEN a ELSE b

\* [f(x) for x in s]
Ids(docs) == [i \in 1..Len(docs) |-> docs[i].movieId_ml]

\* Optional values: << >> is None, <<v>> is v
None == << >>
Some(v) == <<v>>

\* the sequences of k distinct elements of S, in every order
RECURSIVE Arrangements(_, _)
Arrangements(S, k) ==
    IF k = 0 THEN {<< >>}
    ELSE UNION {{<<x>> \o t : t \in Arrangements(S \ {x}, k - 1)} : x \in S}

----------------------------------------------------------------------------
(* Strings *)

Comma == ","

\* ",".join(ids)
RECURSIVE Join(_)
Join(ids) ==
    IF ids = << >> THEN << >>
    ELSE IF Len(ids) = 1 THEN ids[1]
    ELSE ids[1] \o <<Comma>> \o Join(Tail(ids))

\* s.split(","): one field per comma plus one, "" gives [""]
RECURSIVE SplitFrom(_, _, _)
SplitFrom(s, i, field) ==
    IF i > Len(s) THEN <<field>>
    ELSE IF s[i] = Comma THEN <<field>> \o SplitFrom(s, i + 1, << >>)
    ELSE SplitFrom(s, i + 1, Append(field, s[i]))

Split(s) == SplitFrom(s, 1, << >>)

\* f"recommendations:{user_id}"
UserKey(user_id) ==
    <<"r","e","c","o","m","m","e","n","d","a","t","i","o","n","s",":">> \o user_id

\* an item key built with the prefix of the user keys
ItemKeyUserPrefix(movie_id_ml) == UserKey(movie_id_ml)

\* f"item_recommendations:{movie_id_ml}"
ItemKey(movie_id_ml) ==
    <<"i","t","e","m","_","r","e","c","o","m","m","e","n","d","a","t","i","o","n","s",":">>
        \o movie_id_ml

----------------------------------------------------------------------------
(* Redis *)

UserCacheTTL == 3600
ItemCacheTTL == 3600

\* redis_client.get(key): None when the key is absent or has expired
RedisGet(c, key) == IF key \in DOMAIN c THEN Some(c[key].value) ELSE None

\* a write that appends the value to the one already stored under the key
RedisSetAppending(c, key, value, ttl) ==
    [k \in DOMAIN c \cup {key} |->
        IF k = key
        THEN [value |-> IF key \in DOMAIN c THEN c[key].value \o <<",">> \o value
                        ELSE value,
              ex |-> ttl]
        ELSE c[k]]

\* redis_client.set(key, value, ex=ttl): overwrites unconditionally
RedisSet(c, key, value, ttl) ==
    [k \in DOMAIN c \cup {key} |->
        IF k = key THEN [value |-> value, ex |-> ttl] ELSE c[k]]

\* "if cached_recommendations:" - None and "" are both falsy
Truthy(got) == got /= None /\ Len(got[1]) > 0

\* the faults of the cache backend a request can meet
RedisFaults == {"connect", "get", "set"}

\* what can go wrong in one request: nothing, the cache backend, or a fetched
\* document that does not validate as a response model. A request meets the
\* first fault on its path, so one fault per request gives every outcome.
Faults == {"none", "validation"} \cup RedisFaults

----------------------------------------------------------------------------
(* MongoDB *)

\* a find whose filter matches every document
FindInMatchingAll(coll, ids) == coll

\* find({"movieId_ml": {"$in": ids}}, {"embedding": 0}): natural order
FindIn(coll, ids) == SelectSeq(coll, LAMBDA d : d.movieId_ml \in Range(ids))

\* find_one({"movieId_ml": id})
FindOne(coll, id) ==
    LET found == SelectSeq(coll, LAMBDA d : d.movieId_ml = id)
    IN  IF found = << >> THEN None ELSE Some(found[1])

FallbackLimit == 10

\* find({}, {"embedding": 0}).limit(10)
FindTop(coll) == SubSeq(coll, 1, Min(FallbackLimit, Len(coll)))

SampleSize == 500

\* the match stage without its "$ne" filter
MatchNeKeepsTarget(coll, id) == coll

\* {"$match": {"movieId_ml": {"$ne": id}}}
MatchNe(coll, id) == SelectSeq(coll, LAMBDA d : d.movieId_ml /= id)

\* {"$sample": {"size": 500}}: min(size, n) distinct documents in random order
Samples(coll, size) == Arrangements(Range(coll), Min(size, Len(coll)))

\* {interaction["movieId_ml"] for interaction in find({"userId": user_id})}
SeenMovieIds(log, user_id) ==
    {log[i].movieId_ml : i \in {j \in 1..Len(log) : log[j].userId = user_id}}

----------------------------------------------------------------------------
(* Similarity and ranking *)

Dot(a, b) == a[1] * b[1] + a[2] * b[2]

Norm2(a) == Dot(a, a)

\* cosine_similarity normalises each row by its norm, a zero row by 1.
\* The scores of two candidates against one target are compared exactly, as
\* squares (the components are non-negative), the target's norm cancelling.
NormOr1(a) == IF Norm2(a) = 0 THEN 1 ELSE Norm2(a)

\* cosine(target, a) >= cosine(target, b)
ScoreGE(target, a, b) ==
    Dot(target, a) * Dot(target, a) * NormOr1(b)
        >= Dot(target, b) * Dot(target, b) * NormOr1(a)

\* the place of a sort that is not stable: a candidate goes before the
\* earlier candidates it ties with
RankOfBeforeTies(target, candidates, i) ==
    1 + Cardinality({j \in 1..Len(candidates) :
            /\ j /= i
            /\ IF j < i
               THEN ~ScoreGE(target, candidates[i].embedding, candidates[j].embedding)
               ELSE ScoreGE(target, candidates[j].embedding, candidates[i].embedding)})

\* the place of the i-th candidate in descending order of score: after the
\* candidates that score higher and after the earlier candidates it ties with
\* (a stable sort)
RankOf(target, candidates, i) ==
    1 + Cardinality({j \in 1..Len(candidates) :
            /\ j /= i
            /\ IF j < i
               THEN ScoreGE(target, candidates[j].embedding, candidates[i].embedding)
               ELSE ~ScoreGE(target, candidates[i].embedding, candidates[j].embedding)})

\* sorted(zip(candidate_movies, similarities), key=lambda x: x[1], reverse=True);
\* the places are held as a tuple, computed once
Ranked(target, candidates) ==
    LET place == [i \in 1..Len(candidates) |-> RankOf(target, candidates, i)] \o << >>
        at == [p \in 1..Len(candidates) |->
                  CHOOSE i \in 1..Len(candidates) : place[i] = p]
    IN  [p \in 1..Len(candidates) |-> candidates[at[p]]]

\* the seen filter letting every candidate through
FilterSeenNothing(ranked, seen) == ranked

\* [(movie, score) for ... if movie["movieId_ml"] not in seen_movie_ids]
FilterSeen(ranked, seen) == SelectSeq(ranked, LAMBDA d : d.movieId_ml \notin seen)

TopN == 10

\* the slice taking every filtered candidate
TopRecommendationsUncapped(filtered) == filtered

\* filtered_candidates[:top_n]
TopRecommendations(filtered) == SubSeq(filtered, 1, Min(TopN, Len(filtered)))

----------------------------------------------------------------------------
(* What a handler body ends with, and what a request leaves behind *)

NoTrace ==
    [cacheRead |-> None, cacheGot |-> None, embeddingFetch |-> FALSE, sampled |-> None,
     ranked |-> None, interactionsRead |-> FALSE, cacheWrite |-> None]

\* "return [MovieResponse(**movie) for movie in docs]"
Return(docs, path, tr, c) ==
    [kind |-> "return", status |-> 200, detail |-> "", cause |-> "", body |-> Ids(docs),
     path |-> path, trace |-> tr, cache |-> c]

\* "raise HTTPException(status_code=..., detail=...)"
RaiseHTTP(status, detail, path, tr, c) ==
    [kind |-> "HTTPException", status |-> status, detail |-> detail, cause |-> "",
     body |-> << >>, path |-> path, trace |-> tr, cache |-> c]

\* any other exception: a Redis error, a KeyError, a ValueError of
\* cosine_similarity, a ValidationError of MovieResponse(**movie)
RaiseError(what, path, tr, c) ==
    [kind |-> "Exception", status |-> 0, detail |-> what, cause |-> what,
     body |-> << >>, path |-> path, trace |-> tr, cache |-> c]

\* "except Exception" turning the body's outcome into HTTP 500 with a generic
\* detail; the cause goes to the server log only
Error500(out, detail) ==
    [out EXCEPT !.kind = "HTTPException", !.status = 500, !.detail = detail]

\* a dependency raised before the handler ran: the framework answers 500
DependencyFailure(c) ==
    [kind |-> "HTTPException", status |-> 500, detail |-> "Internal Server Error",
     cause |-> "redis connect", body |-> << >>, path |-> "none", trace |-> NoTrace, cache |-> c]

\* get_redis_client: ping() raising ConnectionError is logged and re-raised
GetRedisClientRaises(fault) == fault = "connect"

\* MovieResponse(**movie) for each fetched document: raises when one of them
\* does not validate (no string "_id", no title, no genres)
BuildRaises(docs, fault) == fault = "validation" /\ docs /= << >>

----------------------------------------------------------------------------
(* GET /recommendations/ *)

\* the try block of get_recommendations
GetRecommendationsBody(user_id, fault) ==
    LET key == UserKey(user_id)
        tr0 == [NoTrace EXCEPT !.cacheRead = Some(key)]
    IN  IF fault = "get" THEN RaiseError("redis get", "none", tr0, cache)
        ELSE
        LET cached_recommendations == RedisGet(cache, key)
            tr1 == [tr0 EXCEPT !.cacheGot = cached_recommendations]
        IN  IF Truthy(cached_recommendations)
            THEN LET movie_ids == Split(cached_recommendations[1])
                     found == FindIn(movies, movie_ids)
                 IN  IF BuildRaises(found, fault)
                     THEN RaiseError("validation", "hit", tr1, cache)
                     ELSE Return(found, "hit", tr1, cache)
            ELSE LET top_movies == FindTop(movies)
                 IN  IF top_movies = << >>
                     THEN RaiseHTTP(404, "No movies found.", "miss", tr1, cache)
                     ELSE
                     LET movie_ids_to_cache == Ids(top_movies)
                         value == Join(movie_ids_to_cache)
                         c2 == RedisSet(cache, key, value, UserCacheTTL)
                         tr2 == [tr1 EXCEPT !.cacheWrite =
                                    Some([key |-> key, ids |-> movie_ids_to_cache,
                                          value |-> value, ex |-> UserCacheTTL])]
                     IN  IF fault = "set"
                         THEN RaiseError("redis set", "miss", tr1, cache)
                         ELSE IF BuildRaises(top_movies, fault)
                         THEN RaiseError("validation", "miss", tr2, c2)
                         ELSE Return(top_movies, "miss", tr2, c2)

\* the handler with "except Exception" as its only clause
RecommendationsExceptGeneric(out) ==
    IF out.kind \in {"Exception", "HTTPException"}
    THEN Error500(out, "Error generating recommendations")
    ELSE out

\* "except HTTPException as e: raise e" before "except Exception": 500
RecommendationsExcept(out) ==
    IF out.kind = "Exception"
    THEN Error500(out, "Error generating recommendations")
    ELSE out

----------------------------------------------------------------------------
(* GET /recommendations/item/{movie_id_ml} *)

\* "if not target_movie or 'embedding' not in target_movie"
EmbeddingMissing(target_movie) ==
    target_movie = None \/ target_movie[1].embedding = NoEmbedding

\* [movie["embedding"] for movie in candidate_movies] raises KeyError
CandidateKeyError(candidate_movies) ==
    \E i \in 1..Len(candidate_movies) : candidate_movies[i].embedding = NoEmbedding

\* cosine_similarity(target, np.array([])) raises ValueError: the candidate
\* array is 1-D when there is no candidate
SimilarityValueError(candidate_movies) == candidate_movies = << >>

\* steps 2 to 9 of get_item_recommendations, after a cache miss
ItemFreshPath(user_id, movie_id_ml, fault, sample, tr0) ==
    LET key == ItemKey(movie_id_ml)
        target_movie == FindOne(movies, movie_id_ml)
        tr2 == [tr0 EXCEPT !.embeddingFetch = TRUE]
    IN  IF EmbeddingMissing(target_movie)
        THEN RaiseHTTP(404, "Movie embedding not found.", "miss", tr2, cache)
        ELSE
        LET candidate_movies == sample
            tr3 == [tr2 EXCEPT !.sampled = Some(Ids(candidate_movies))]
        IN  IF CandidateKeyError(candidate_movies)
            THEN RaiseError("KeyError: embedding", "miss", tr3, cache)
            ELSE IF SimilarityValueError(candidate_movies)
            THEN RaiseError("ValueError: expected 2D array", "miss", tr3, cache)
            ELSE
            LET ranked_candidates == Ranked(target_movie[1].embedding, candidate_movies)
                seen_movie_ids == SeenMovieIds(interactions, user_id)
                filtered_candidates == FilterSeen(ranked_candidates, seen_movie_ids)
                top_recommendations == TopRecommendations(filtered_candidates)
                recommended_movie_ids == Ids(top_recommendations)
                recommended_movies == FindIn(movies, recommended_movie_ids)
                value == Join(recommended_movie_ids)
                tr6 == [tr3 EXCEPT !.ranked = Some(Ids(ranked_candidates)),
                                   !.interactionsRead = TRUE]
                tr9 == [tr6 EXCEPT !.cacheWrite =
                           Some([key |-> key, ids |-> recommended_movie_ids,
                                 value |-> value, ex |-> ItemCacheTTL])]
                c9 == RedisSet(cache, key, value, ItemCacheTTL)
            IN  IF fault = "set"
                THEN RaiseError("redis set", "miss", tr6, cache)
                ELSE IF BuildRaises(recommended_movies, fault)
                THEN RaiseError("validation", "miss", tr9, c9)
                ELSE Return(recommended_movies, "miss", tr9, c9)

\* the try block with a hit path that filters the cached ids by the
\* requesting user's interactions
GetItemRecommendationsBodyFilteringHits(user_id, movie_id_ml, fault, sample) ==
    LET key == ItemKey(movie_id_ml)
        tr0 == [NoTrace EXCEPT !.cacheRead = Some(key)]
    IN  IF fault = "get" THEN RaiseError("redis get", "none", tr0, cache)
        ELSE
        LET cached_recommendations == RedisGet(cache, key)
            tr1 == [tr0 EXCEPT !.cacheGot = cached_recommendations]
        IN  IF Truthy(cached_recommendations)
            THEN LET movie_ids == Split(cached_recommendations[1])
                     found == FilterSeen(FindIn(movies, movie_ids),
                                         SeenMovieIds(interactions, user_id))
                 IN  IF BuildRaises(found, fault)
                     THEN RaiseError("validation", "hit", tr1, cache)
                     ELSE Return(found, "hit", tr1, cache)
            ELSE ItemFreshPath(user_id, movie_id_ml, fault, sample, tr1)

\* the try block of get_item_recommendations
GetItemRecommendationsBody(user_id, movie_id_ml, fault, sample) ==
    LET key == ItemKey(movie_id_ml)
        tr0 == [NoTrace EXCEPT !.cacheRead = Some(key)]
    IN  IF fault = "get" THEN RaiseError("redis get", "none", tr0, cache)
        ELSE
        LET cached_recommendations == RedisGet(cache, key)
            tr1 == [tr0 EXCEPT !.cacheGot = cached_recommendations]
        IN  IF Truthy(cached_recommendations)
            THEN LET movie_ids == Split(cached_recommendations[1])
                     found == FindIn(movies, movie_ids)
                 IN  IF BuildRaises(found, fault)
                     THEN RaiseError("validation", "hit", tr1, cache)
                     ELSE Return(found, "hit", tr1, cache)
            ELSE ItemFreshPath(user_id, movie_id_ml, fault, sample, tr1)

\* the handler with "except Exception" as its only clause
ItemRecommendationsExceptGeneric(out) ==
    IF out.kind \in {"Exception", "HTTPException"}
    THEN Error500(out, "Error generating item-based recommendations")
    ELSE out

\* "except HTTPException as e: raise e" before "except Exception": 500
ItemRecommendationsExcept(out) ==
    IF out.kind = "Exception"
    THEN Error500(out, "Error generating item-based recommendations")
    ELSE out

----------------------------------------------------------------------------
(* GET /movies/{movie_id} *)

\* the try block of get_movie
GetMovieBody(movie_id, fault) ==
    LET movie == FindOne(movies, movie_id)
    IN  IF movie /= None
        THEN IF BuildRaises(movie, fault)
             THEN RaiseError("validation", "none", NoTrace, cache)
             ELSE Return(movie, "none", NoTrace, cache)
        ELSE RaiseHTTP(404, "Movie not found", "none", NoTrace, cache)

\* the only clause is "except Exception", and HTTPException is an Exception
MovieExcept(out) ==
    IF out.kind \in {"Exception", "HTTPException"}
    THEN Error500(out, "Error retrieving movie")
    ELSE out

----------------------------------------------------------------------------
(* The state machine *)

Response(op, user_id, movie_id, out) ==
    [op |-> op, user |-> user_id, movie |-> movie_id, status |-> out.status,
     detail |-> out.detail, cause |-> out.cause, body |-> out.body,
     path |-> out.path]

EmptyCache == [k \in {} |-> 0]

\* no request has presented a token yet
NoCredentials == [kind |-> "none", sub |-> << >>]

\* no request is in flight
NoRequests == << >>

\* a step of a single worker whose requests all carry a valid token
Served == UNCHANGED <<credentials, requests>>

\* the documents of the catalogue positions in P, in catalogue order, those
\* of the positions in E with their embedding
RECURSIVE StoreOf(_, _, _)
StoreOf(P, E, i) ==
    IF i > Len(Catalogue) THEN << >>
    ELSE (IF i \in P
          THEN <<[movieId_ml |-> Catalogue[i],
                  embedding |-> IF i \in E THEN CatalogueEmbedding[i]
                                ELSE NoEmbedding]>>
          ELSE << >>) \o StoreOf(P, E, i + 1)

\* every movie collection over the catalogue: each movie absent, present
\* with its embedding, or present without one
Stores ==
    UNION {{StoreOf(P, E, 1) : E \in SUBSET P} : P \in SUBSET (1..Len(Catalogue))}

Init ==
    /\ movies \in Stores
    /\ interactions = << >>
    /\ cache = EmptyCache
    /\ response = [op |-> "none", user |-> << >>, movie |-> << >>, status |-> 0,
                   detail |-> "", cause |-> "", body |-> << >>, path |-> "none"]
    /\ trace = NoTrace
    /\ credentials = NoCredentials
    /\ requests = NoRequests

\* get_recommendations, with its get_redis_client dependency
GetRecommendations(user_id, fault) ==
    LET out == IF GetRedisClientRaises(fault) THEN DependencyFailure(cache)
               ELSE RecommendationsExcept(GetRecommendationsBody(user_id, fault))
    IN  /\ cache' = out.cache
        /\ response' = Response("recommendations", user_id, << >>, out)
        /\ trace' = out.trace
        /\ UNCHANGED <<movies, interactions>>

\* get_item_recommendations, with its get_redis_client dependency, for one
\* outcome of the "$sample" stage
GetItemRecommendationsSampled(user_id, movie_id_ml, fault, sample) ==
    \E out \in {IF GetRedisClientRaises(fault) THEN DependencyFailure(cache)
                ELSE ItemRecommendationsExcept(
                         GetItemRecommendationsBody(user_id, movie_id_ml, fault,
                                                    sample))} :
        /\ cache' = out.cache
        /\ response' = Response("item", user_id, movie_id_ml, out)
        /\ trace' = out.trace
        /\ UNCHANGED <<movies, interactions>>

\* get_item_recommendations, whatever the "$sample" stage draws
GetItemRecommendations(user_id, movie_id_ml, fault) ==
    \E sample \in Samples(MatchNe(movies, movie_id_ml), SampleSize) :
        GetItemRecommendationsSampled(user_id, movie_id_ml, fault, sample)

\* get_movie
GetMovie(movie_id, fault) ==
    LET out == MovieExcept(GetMovieBody(movie_id, fault))
    IN  /\ response' = Response("movie", << >>, movie_id, out)
        /\ trace' = out.trace
        /\ UNCHANGED <<movies, interactions, cache>>

\* an insert that also drops every cache entry
CreateInteractionInvalidating(user_id, interaction, fault) ==
    /\ Len(interactions) < MaxLog
    /\ interactions' = Append(interactions,
           [userId |-> user_id, movieId_ml |-> interaction.movieId_ml,
            type |-> interaction.type, value |-> interaction.value,
            timestamp |-> Len(interactions) + 1])
    /\ response' = [op |-> "interaction", user |-> user_id,
                    movie |-> interaction.movieId_ml,
                    status |-> IF fault = "validation" THEN 500 ELSE 200,
                    detail |-> IF fault = "validation"
                               THEN "Error creating interaction" ELSE "",
                    cause |-> IF fault = "validation" THEN "validation" ELSE "",
                    body |-> << >>, path |-> "none"]
    /\ trace' = NoTrace
    /\ cache' = EmptyCache
    /\ UNCHANGED movies

\* create_interaction: insert_one, then find_one and InteractionResponse(**doc)
CreateInteraction(user_id, interaction, fault) ==
    /\ Len(interactions) < MaxLog
    /\ interactions' = Append(interactions,
           [userId |-> user_id, movieId_ml |-> interaction.movieId_ml,
            type |-> interaction.type, value |-> interaction.value,
            timestamp |-> Len(interactions) + 1])
    /\ response' = [op |-> "interaction", user |-> user_id,
                    movie |-> interaction.movieId_ml,
                    status |-> IF fault = "validation" THEN 500 ELSE 200,
                    detail |-> IF fault = "validation"
                               THEN "Error creating interaction" ELSE "",
                    cause |-> IF fault = "validation" THEN "validation" ELSE "",
                    body |-> << >>, path |-> "none"]
    /\ trace' = NoTrace
    /\ UNCHANGED <<movies, cache>>

\* Redis drops an entry whose TTL has run out
Expire(key) ==
    /\ key \in DOMAIN cache
    /\ cache' = [k \in DOMAIN cache \ {key} |-> cache[k]]
    /\ UNCHANGED <<movies, interactions, response, trace>>

\* the faults a request can meet while the cache backend works
HealthyFaults == Faults \ RedisFaults

\* the recommender with a working cache backend
Next ==
    \/ \E u \in Users, f \in HealthyFaults : GetRecommendations(u, f) /\ Served
    \/ \E u \in Users, m \in Targets, f \in HealthyFaults :
           GetItemRecommendations(u, m, f) /\ Served
    \/ \E u \in Users, i \in InteractionBodies, f \in HealthyFaults :
           CreateInteraction(u, i, f) /\ Served
    \/ \E key \in DOMAIN cache : Expire(key) /\ Served

Spec == Init /\ [][Next]_vars

\* the whole service, the cache backend failing at will
NextFaults ==
    \/ Next
    \/ \E u \in Users, f \in RedisFaults : GetRecommendations(u, f) /\ Served
    \/ \E u \in Users, m \in Targets, f \in RedisFaults :
           GetItemRecommendations(u, m, f) /\ Served
    \/ \E m \in MovieIds, f \in HealthyFaults : GetMovie(m, f) /\ Served

SpecFaults == Init /\ [][NextFaults]_vars

----------------------------------------------------------------------------
(* The two key namespaces, over ids that look like keys *)

\* user ids and movie ids alike: a plain id, ids holding ":", and ids that are
\* themselves a key of either namespace
KeyStrings ==
    {<<"a">>, <<":">>, <<"a", ":", "a">>, UserKey(<<"a">>), ItemKey(<<"a">>)}

\* a collection of two embedded movies with such ids
KeyStores ==
    {<<[movieId_ml |-> p[1], embedding |-> <<1, 0>>],
       [movieId_ml |-> p[2], embedding |-> <<0, 1>>]>> :
        p \in {q \in KeyStrings \X KeyStrings : q[1] /= q[2]}}

InitKeys ==
    /\ movies \in {st \in KeyStores : st[1].movieId_ml = <<"a">>}
    /\ interactions = << >>
    /\ cache = EmptyCache
    /\ response = [op |-> "none", user |-> << >>, movie |-> << >>, status |-> 0,
                   detail |-> "", cause |-> "", body |-> << >>, path |-> "none"]
    /\ trace = NoTrace
    /\ credentials = NoCredentials
    /\ requests = NoRequests

NextKeys ==
    \/ \E u \in KeyStrings : GetRecommendations(u, "none") /\ Served
    \/ \E u \in KeyStrings, m \in KeyStrings :
           /\ GetItemRecommendations(u, m, "none")
           /\ Served
    \/ \E key \in DOMAIN cache : Expire(key) /\ Served

SpecKeys == InitKeys /\ [][NextKeys]_vars

----------------------------------------------------------------------------
(* The user-based recommender over a movie collection that changes *)

\* the catalogue loader, outside the service, inserts a movie
InsertMovie(doc) ==
    /\ doc.movieId_ml \notin Range(Ids(movies))
    /\ movies' = Append(movies, doc)
    /\ UNCHANGED <<interactions, cache, response, trace>>

\* the catalogue loader, outside the service, deletes a movie
DeleteMovie(id) ==
    /\ id \in Range(Ids(movies))
    /\ movies' = SelectSeq(movies, LAMBDA d : d.movieId_ml /= id)
    /\ UNCHANGED <<interactions, cache, response, trace>>

InitStore ==
    /\ movies = << >>
    /\ interactions = << >>
    /\ cache = EmptyCache
    /\ response = [op |-> "none", user |-> << >>, movie |-> << >>, status |-> 0,
                   detail |-> "", cause |-> "", body |-> << >>, path |-> "none"]
    /\ trace = NoTrace
    /\ credentials = NoCredentials
    /\ requests = NoRequests

NextStore ==
    \/ \E u \in Users, f \in HealthyFaults : GetRecommendations(u, f) /\ Served
    \/ \E i \in 1..Len(Catalogue) :
           InsertMovie([movieId_ml |-> Catalogue[i],
                        embedding |-> CatalogueEmbedding[i]]) /\ Served
    \/ \E id \in MovieIds : DeleteMovie(id) /\ Served
    \/ \E key \in DOMAIN cache : Expire(key) /\ Served

SpecStore == InitStore /\ [][NextStore]_vars

----------------------------------------------------------------------------
(* The recommender over a catalogue larger than its caps *)

MaxCatalogue == 600   \* the movies of the largest collection

Digit(k) == <<"0", "1", "2", "3", "4", "5", "6", "7", "8", "9">>[k + 1]

\* the movie id "tt" followed by the three digits of i
LargeId(i) == <<"t", "t", Digit(i \div 100), Digit((i \div 10) % 10), Digit(i % 10)>>

\* embeddings in three directions, so that many candidates tie
LargeEmbedding(i) == << <<1, 0>>, <<1, 1>>, <<0, 1>> >>[(i % 3) + 1]

\* a collection of n embedded movies
LargeStore(n) ==
    [i \in 1..n |-> [movieId_ml |-> LargeId(i), embedding |-> LargeEmbedding(i)]]

\* collections below and above the caps of 10 and 500
LargeStores == {LargeStore(n) : n \in {4, 10, 11, 12, 13, MaxCatalogue}}

\* one draw of {"$sample": {"size": size}}: min(size, n) distinct documents,
\* those after the r-th in natural order, wrapping round
SampleFrom(coll, size, r) ==
    [i \in 1..Min(size, Len(coll)) |-> coll[((r + i - 1) % Len(coll)) + 1]]

\* the draws considered
SampleOffsets == {0, 2}

InitLarge ==
    /\ movies \in LargeStores
    /\ interactions = << >>
    /\ cache = EmptyCache
    /\ response = [op |-> "none", user |-> << >>, movie |-> << >>, status |-> 0,
                   detail |-> "", cause |-> "", body |-> << >>, path |-> "none"]
    /\ trace = NoTrace
    /\ credentials = NoCredentials
    /\ requests = NoRequests

NextLarge ==
    \/ GetRecommendations(<<"u", "1">>, "none") /\ Served
    \/ \E r \in SampleOffsets :
           GetItemRecommendationsSampled(
               <<"u", "1">>, LargeId(5), "none",
               SampleFrom(MatchNe(movies, LargeId(5)), SampleSize, r)) /\ Served
    \/ \E key \in DOMAIN cache : Expire(key) /\ Served

SpecLarge == InitLarge /\ [][NextLarge]_vars

----------------------------------------------------------------------------
(* The routes of the application with their dependencies *)

\* the Authorization header of a request: a token of a user that verifies,
\* one whose signature does not, one whose "exp" has passed, or no header
Tokens ==
    {[kind |-> "valid", sub |-> u] : u \in Users}
        \cup {[kind |-> k, sub |-> <<"u", "1">>] : k \in {"invalid", "expired"}}
        \cup {[kind |-> "missing", sub |-> << >>]}

\* verify_token with its oauth2_scheme dependency: no bearer token, or
\* jwt.decode raising JWTError (ExpiredSignatureError is one)
VerifyTokenRaises(token) == token.kind /= "valid"

\* the 401 of OAuth2PasswordBearer (no token) or of verify_token
Unauthorized(op, token) ==
    /\ response' = [op |-> op, user |-> << >>, movie |-> << >>, status |-> 401,
                    detail |-> IF token.kind = "missing" THEN "Not authenticated"
                               ELSE "Invalid authentication credentials",
                    cause |-> "", body |-> << >>, path |-> "none"]
    /\ trace' = NoTrace
    /\ UNCHANGED <<movies, interactions, cache>>

\* get_mongo_db: ping raising ConnectionFailure is logged and re-raised
GetMongoDbRaises(mongo_down) == mongo_down

\* the dependency raised before the handler ran: the framework answers 500
MongoUnavailable(op) ==
    /\ response' = [op |-> op, user |-> << >>, movie |-> << >>, status |-> 500,
                    detail |-> "Internal Server Error", cause |-> "mongo connect",
                    body |-> << >>, path |-> "none"]
    /\ trace' = NoTrace
    /\ UNCHANGED <<movies, interactions, cache>>

\* the try block of get_movies
GetMoviesBody(skip, limit, fault) ==
    LET page == SubSeq(movies, skip + 1, Min(Len(movies), skip + limit))
    IN  IF BuildRaises(page, fault)
        THEN RaiseError("validation", "none", NoTrace, cache)
        ELSE Return(page, "none", NoTrace, cache)

\* "except Exception" of get_movies
MoviesExcept(out) ==
    IF out.kind \in {"Exception", "HTTPException"}
    THEN Error500(out, "Error retrieving movies")
    ELSE out

\* get_movies
GetMovies(skip, limit, fault) ==
    LET out == MoviesExcept(GetMoviesBody(skip, limit, fault))
    IN  /\ response' = Response("movies", << >>, << >>, out)
        /\ trace' = out.trace
        /\ UNCHANGED <<movies, interactions, cache>>

\* GET /recommendations/: payload, db, redis_client
RecommendationsEndpoint(token, mongo_down, fault) ==
    /\ credentials' = token
    /\ IF VerifyTokenRaises(token) THEN Unauthorized("recommendations", token)
       ELSE IF GetMongoDbRaises(mongo_down) THEN MongoUnavailable("recommendations")
       ELSE GetRecommendations(token.sub, fault)
    /\ UNCHANGED requests

\* GET /recommendations/item/{movie_id_ml}: payload, db, redis_client
ItemRecommendationsEndpoint(token, mongo_down, movie_id_ml, fault) ==
    /\ credentials' = token
    /\ IF VerifyTokenRaises(token) THEN Unauthorized("item", token)
       ELSE IF GetMongoDbRaises(mongo_down) THEN MongoUnavailable("item")
       ELSE GetItemRecommendations(token.sub, movie_id_ml, fault)
    /\ UNCHANGED requests

\* GET /movies/: db, settings, payload
MoviesEndpoint(token, mongo_down, skip, limit, fault) ==
    /\ credentials' = token
    /\ IF GetMongoDbRaises(mongo_down) THEN MongoUnavailable("movies")
       ELSE IF VerifyTokenRaises(token) THEN Unauthorized("movies", token)
       ELSE GetMovies(skip, limit, fault)
    /\ UNCHANGED requests

\* GET /movies/{movie_id}: db, payload
MovieEndpoint(token, mongo_down, movie_id, fault) ==
    /\ credentials' = token
    /\ IF GetMongoDbRaises(mongo_down) THEN MongoUnavailable("movie")
       ELSE IF VerifyTokenRaises(token) THEN Unauthorized("movie", token)
       ELSE GetMovie(movie_id, fault)
    /\ UNCHANGED requests

\* POST /interactions/: interaction, payload, db, settings
InteractionsEndpoint(token, mongo_down, interaction, fault) ==
    /\ credentials' = token
    /\ IF VerifyTokenRaises(token) THEN Unauthorized("interaction", token)
       ELSE IF GetMongoDbRaises(mongo_down) THEN MongoUnavailable("interaction")
       ELSE CreateInteraction(token.sub, interaction, fault)
    /\ UNCHANGED requests

\* GET /health: no dependency
HealthCheck(token) ==
    /\ credentials' = token
    /\ response' = [op |-> "health", user |-> << >>, movie |-> << >>, status |-> 200,
                    detail |-> "", cause |-> "", body |-> << <<"o", "k">> >>,
                    path |-> "none"]
    /\ trace' = NoTrace
    /\ UNCHANGED <<movies, interactions, cache, requests>>

\* the whole catalogue, every movie embedded
FullStore == StoreOf(1..Len(Catalogue), 1..Len(Catalogue), 1)

InitAuth ==
    /\ movies = FullStore
    /\ interactions = << >>
    /\ cache = EmptyCache
    /\ response = [op |-> "none", user |-> << >>, movie |-> << >>, status |-> 0,
                   detail |-> "", cause |-> "", body |-> << >>, path |-> "none"]
    /\ trace = NoTrace
    /\ credentials = NoCredentials
    /\ requests = NoRequests

NextAuth ==
    \/ \E t \in Tokens, down \in BOOLEAN, f \in HealthyFaults :
           RecommendationsEndpoint(t, down, f)
    \/ \E t \in Tokens, down \in BOOLEAN, m \in Targets, f \in HealthyFaults :
           ItemRecommendationsEndpoint(t, down, m, f)
    \/ \E t \in Tokens, down \in BOOLEAN, skip \in {0, 1}, limit \in {1, 10},
          f \in HealthyFaults :
           MoviesEndpoint(t, down, skip, limit, f)
    \/ \E t \in Tokens, down \in BOOLEAN, m \in MovieIds, f \in HealthyFaults :
           MovieEndpoint(t, down, m, f)
    \/ \E t \in Tokens, down \in BOOLEAN, i \in InteractionBodies,
          f \in HealthyFaults :
           InteractionsEndpoint(t, down, i, f)
    \/ \E t \in Tokens : HealthCheck(t)
    \/ \E key \in DOMAIN cache : Expire(key) /\ Served

SpecAuth == InitAuth /\ [][NextAuth]_vars

----------------------------------------------------------------------------
(* Concurrent workers: one handler run per worker, one step per round trip *)

\* the worker processes serving requests at the same time
Workers == 1..3

\* a worker between requests
Idle ==
    [pc |-> "idle", op |-> "none", user |-> << >>, movie |-> << >>, key |-> << >>,
     got |-> None, target |-> None, ranked |-> << >>, ids |-> << >>, docs |-> << >>,
     path |-> "none", status |-> 0, body |-> << >>]

\* the handler of worker w ends: its response, its locals dropped
Done(r, status, body) ==
    [Idle EXCEPT !.pc = "done", !.op = r.op, !.user = r.user, !.movie = r.movie,
                 !.key = r.key, !.ids = r.ids, !.path = r.path,
                 !.status = status, !.body = body]

\* what a step of worker w leaves alone, the cache apart
WorkerFrame == UNCHANGED <<movies, interactions, response, trace, credentials>>

\* a request arrives at worker w: user_id = payload["sub"] and the cache key
Receive(w, op, user_id, movie_id_ml) ==
    /\ requests[w].pc = "idle"
    /\ requests' = [requests EXCEPT ![w] =
           [Idle EXCEPT !.pc = "get", !.op = op, !.user = user_id,
                        !.movie = movie_id_ml,
                        !.key = IF op = "item" THEN ItemKey(movie_id_ml)
                                ELSE UserKey(user_id)]]
    /\ UNCHANGED cache
    /\ WorkerFrame

\* redis_client.get(key) and "if cached_recommendations:"
CacheGet(w) ==
    LET r == requests[w]
        got == RedisGet(cache, r.key)
    IN  /\ r.pc = "get"
        /\ requests' = [requests EXCEPT ![w] =
               [r EXCEPT !.got = got,
                         !.path = IF Truthy(got) THEN "hit" ELSE "miss",
                         !.pc = IF Truthy(got) THEN "hit_find"
                                ELSE IF r.op = "item" THEN "find_one"
                                ELSE "find_top"]]
        /\ UNCHANGED cache
        /\ WorkerFrame

\* the hit path: split, find $in, return
HitFind(w) ==
    LET r == requests[w]
        found == FindIn(movies, Split(r.got[1]))
    IN  /\ r.pc = "hit_find"
        /\ requests' = [requests EXCEPT ![w] = Done(r, 200, Ids(found))]
        /\ UNCHANGED cache
        /\ WorkerFrame

\* find_one of the target and the 404 test
FindTarget(w) ==
    LET r == requests[w]
        target_movie == FindOne(movies, r.movie)
    IN  /\ r.pc = "find_one"
        /\ requests' = [requests EXCEPT ![w] =
               IF EmbeddingMissing(target_movie) THEN Done(r, 404, << >>)
               ELSE [r EXCEPT !.target = target_movie, !.pc = "aggregate"]]
        /\ UNCHANGED cache
        /\ WorkerFrame

\* aggregate ($match, $sample), cosine_similarity and sorted
Aggregate(w) ==
    LET r == requests[w]
    IN  /\ r.pc = "aggregate"
        /\ \E sample \in Samples(MatchNe(movies, r.movie), SampleSize) :
               requests' = [requests EXCEPT ![w] =
                   IF CandidateKeyError(sample) \/ SimilarityValueError(sample)
                   THEN Done(r, 500, << >>)
                   ELSE [r EXCEPT !.ranked = Ranked(r.target[1].embedding, sample),
                                  !.pc = "find_interactions"]]
        /\ UNCHANGED cache
        /\ WorkerFrame

\* find of the user's interactions, the seen filter and the top-N slice
FindInteractions(w) ==
    LET r == requests[w]
        seen_movie_ids == SeenMovieIds(interactions, r.user)
    IN  /\ r.pc = "find_interactions"
        /\ requests' = [requests EXCEPT ![w] =
               [r EXCEPT !.ids = Ids(TopRecommendations(
                                         FilterSeen(r.ranked, seen_movie_ids))),
                         !.ranked = << >>, !.target = None,
                         !.pc = "find_details"]]
        /\ UNCHANGED cache
        /\ WorkerFrame

\* find $in of the recommended ids
FindDetails(w) ==
    LET r == requests[w]
    IN  /\ r.pc = "find_details"
        /\ requests' = [requests EXCEPT ![w] =
               [r EXCEPT !.docs = FindIn(movies, r.ids), !.pc = "set"]]
        /\ UNCHANGED cache
        /\ WorkerFrame

\* the user-based fallback: find().limit(10) and the 404 test
FindTopMovies(w) ==
    LET r == requests[w]
        top_movies == FindTop(movies)
    IN  /\ r.pc = "find_top"
        /\ requests' = [requests EXCEPT ![w] =
               IF top_movies = << >> THEN Done(r, 404, << >>)
               ELSE [r EXCEPT !.docs = top_movies, !.ids = Ids(top_movies),
                              !.pc = "set"]]
        /\ UNCHANGED cache
        /\ WorkerFrame

\* redis_client.set(key, ",".join(ids), ex=3600) and the return
CacheSet(w) ==
    LET r == requests[w]
    IN  /\ r.pc = "set"
        /\ cache' = RedisSet(cache, r.key, Join(r.ids),
                             IF r.op = "item" THEN ItemCacheTTL ELSE UserCacheTTL)
        /\ requests' = [requests EXCEPT ![w] = Done(r, 200, Ids(r.docs))]
        /\ WorkerFrame

\* the log of a user who has interacted with the third movie of the catalogue
ConcurrentLogs ==
    {<< >>,
     <<[userId |-> <<"u", "1">>, movieId_ml |-> Catalogue[3], type |-> "view",
        value |-> 1, timestamp |-> 1]>>}

InitConcurrent ==
    /\ movies = FullStore
    /\ interactions \in ConcurrentLogs
    /\ cache = EmptyCache
    /\ response = [op |-> "none", user |-> << >>, movie |-> << >>, status |-> 0,
                   detail |-> "", cause |-> "", body |-> << >>, path |-> "none"]
    /\ trace = NoTrace
    /\ credentials = NoCredentials
    /\ requests = [w \in Workers |-> Idle]

NextConcurrent ==
    \/ \E w \in Workers, u \in Users : Receive(w, "recommendations", u, << >>)
    \/ \E w \in Workers, u \in Users, m \in Targets : Receive(w, "item", u, m)
    \/ \E w \in Workers : CacheGet(w)
    \/ \E w \in Workers : HitFind(w)
    \/ \E w \in Workers : FindTarget(w)
    \/ \E w \in Workers : Aggregate(w)
    \/ \E w \in Workers : FindInteractions(w)
    \/ \E w \in Workers : FindDetails(w)
    \/ \E w \in Workers : FindTopMovies(w)
    \/ \E w \in Workers : CacheSet(w)
    \/ \E key \in DOMAIN cache : Expire(key) /\ Served

SpecConcurrent == InitConcurrent /\ [][NextConcurrent]_vars

----------------------------------------------------------------------------
(* Properties *)

ItemRequest == response.op = "item"
UserRequest == response.op = "recommendations"

\* the last request made none of the round trips of the fresh path
NoFreshPathWork ==
    /\ ~trace.embeddingFetch
    /\ trace.sampled = None
    /\ trace.ranked = None
    /\ trace.cacheWrite = None

\* the stored document of a movie id, as a sequence of zero or one document
Stored(id) == SelectSeq(movies, LAMBDA d : d.movieId_ml = id)

\* C1: an item-based request that hits a non-empty cached value answers with
\* the movies of exactly the cached ids, in the cached order, and fetches no
\* embedding, samples nothing, ranks nothing and writes nothing to the cache.
C1_HitListsCachedIdsInOrder ==
    (ItemRequest /\ response.path = "hit" /\ response.status = 200)
        => /\ response.body = Split(trace.cacheGot[1])
           /\ NoFreshPathWork

\* C2: no successful item-based response for a movie contains that movie, on
\* the fresh path or on the hit path, and no value stored under the item key
\* of a movie contains that movie.
C2_TargetNeverRecommended ==
    /\ (ItemRequest /\ response.status = 200)
           => response.movie \notin Range(response.body)
    /\ \A m \in MovieIds :
           ItemKey(m) \in DOMAIN cache
               => m \notin Range(Split(cache[ItemKey(m)].value))

C2_Witness ==
    /\ ItemRequest /\ response.status = 200 /\ response.path = "hit"
    /\ Len(response.body) = 2
    /\ ItemKey(response.movie) \in DOMAIN cache

\* C3: on a cache miss of an item-based request, every movie id in the
\* requesting user's interaction log is absent from the response and from the
\* id list the request writes to the cache, whatever the interaction's type,
\* value or age.
C3_SeenExcludedOnMiss ==
    (ItemRequest /\ response.path = "miss")
        => \A id \in SeenMovieIds(interactions, response.user) :
              /\ id \notin Range(response.body)
              /\ trace.cacheWrite /= None
                    => /\ id \notin Range(trace.cacheWrite[1].ids)
                       /\ id \notin Range(Split(trace.cacheWrite[1].value))

C3_Witness ==
    /\ ItemRequest /\ response.path = "miss" /\ response.status = 200
    /\ trace.sampled /= None
    /\ \E id \in SeenMovieIds(interactions, response.user) :
           id \in Range(trace.sampled[1])
    /\ Len(response.body) = 1

\* the causes, as logged, of a fault of the cache backend
RedisCauses == {"redis connect", "redis get", "redis set"}

\* C4: a recommendation request that meets a fault of the cache backend (on
\* connection, on get or on set) is never answered 500 because of it.
C4_CacheFaultDegradesToMiss ==
    (ItemRequest \/ UserRequest)
        => ~(response.status = 500 /\ response.cause \in RedisCauses)

\* C5: on a cache miss of an item-based request whose target has an
\* embedding, the candidates sampled all have an embedding, and a movie
\* without one never makes the request fail.
C5_CandidatesHaveEmbeddings ==
    (ItemRequest /\ trace.sampled /= None)
        => /\ \A id \in Range(trace.sampled[1]) :
                 Stored(id)[1].embedding /= NoEmbedding
           /\ response.cause /= "KeyError: embedding"

\* C6: on a cache miss of an item-based request whose target has an
\* embedding, with fewer than 500 eligible candidates, none included, the
\* request completes without a fault and returns at most that many movies.
C6_FewCandidatesNoFault ==
    (/\ ItemRequest /\ trace.sampled /= None
     /\ \A id \in Range(trace.sampled[1]) : Stored(id)[1].embedding /= NoEmbedding
     /\ response.cause /= "validation")
        => /\ response.status = 200
           /\ Len(response.body) <= Len(trace.sampled[1])

\* C7: GET /movies/{movieId} for an id that is not in the movie store
\* answers 404.
C7_UnknownMovieIs404 ==
    (response.op = "movie" /\ Stored(response.movie) = << >>)
        => response.status = 404

\* C8: a user-based request that misses the cache over an empty movie store
\* answers 404 "No movies found.", not 500.
C8_EmptyStoreIs404 ==
    (UserRequest /\ response.path = "miss" /\ movies = << >>)
        => /\ response.status = 404
           /\ response.detail = "No movies found."

C8_Witness ==
    /\ UserRequest /\ response.path = "miss" /\ movies = << >>
    /\ response.status = 404

\* C9: an item-based request that misses the cache answers 404 "Movie
\* embedding not found." whenever the target is absent from the store or has
\* no embedding, before any sampling, ranking or interaction read.
C9_MissingEmbeddingIs404 ==
    (/\ ItemRequest /\ response.path = "miss"
     /\ \/ Stored(response.movie) = << >>
        \/ Stored(response.movie)[1].embedding = NoEmbedding)
        => /\ response.status = 404
           /\ response.detail = "Movie embedding not found."
           /\ trace.sampled = None
           /\ trace.ranked = None
           /\ ~trace.interactionsRead
           /\ trace.cacheWrite = None

C9_Witness ==
    /\ ItemRequest /\ response.path = "miss" /\ response.status = 404
    /\ Stored(response.movie) /= << >>
    /\ Stored(response.movie)[1].embedding = NoEmbedding
    /\ Len(movies) = 3

\* C10: every id list a request stores, the empty one included, comes back
\* from an immediate lookup of its key as a hit carrying the same id list.
C10_CacheRoundTrip ==
    trace.cacheWrite /= None
        => LET w == trace.cacheWrite[1]
               got == RedisGet(RedisSet(EmptyCache, w.key, Join(w.ids), w.ex), w.key)
           IN  /\ Truthy(got)
               /\ Split(got[1]) = w.ids

\* the embedding of a stored movie
EmbeddingOf(id) == Stored(id)[1].embedding

\* the place of a movie id in a list of distinct ids
PlaceIn(ids, id) == CHOOSE i \in 1..Len(ids) : ids[i] = id

\* C13: the ranking of the sampled candidates is a permutation of them in
\* descending order of similarity to the target, candidates of equal score
\* keeping their sampled order; so one sample has one ranking.
C13_RankingDescendingStable ==
    (ItemRequest /\ trace.ranked /= None)
        => LET s == trace.sampled[1]
               r == trace.ranked[1]
               t == EmbeddingOf(response.movie)
               emb == [i \in 1..Len(r) |-> EmbeddingOf(r[i])] \o << >>
               drawn == [i \in 1..Len(r) |-> PlaceIn(s, r[i])] \o << >>
           IN  /\ Len(r) = Len(s)
               /\ Range(r) = Range(s)
               /\ \A i \in 1..Len(r) : \A j \in (i + 1)..Len(r) :
                      /\ ScoreGE(t, emb[i], emb[j])
                      /\ ScoreGE(t, emb[j], emb[i]) => drawn[i] < drawn[j]

\* 500 candidates ranked, the first two a tie, the ranking not the sampled
\* order
C13_Witness ==
    /\ ItemRequest /\ trace.ranked /= None
    /\ Len(trace.ranked[1]) = 500
    /\ trace.ranked[1] /= trace.sampled[1]
    /\ ScoreGE(EmbeddingOf(response.movie), EmbeddingOf(trace.ranked[1][2]),
               EmbeddingOf(trace.ranked[1][1]))
    /\ PlaceIn(trace.sampled[1], trace.ranked[1][1])
           < PlaceIn(trace.sampled[1], trace.ranked[1][2])

\* C15: an item-based hit answers with the stored movies of the cached ids,
\* whatever the requesting user has interacted with: the seen filter is not
\* applied again.
C15_HitIgnoresInteractions ==
    (ItemRequest /\ response.path = "hit" /\ response.status = 200)
        => /\ response.body =
                  Ids(SelectSeq(movies, LAMBDA d :
                          d.movieId_ml \in Range(Split(trace.cacheGot[1]))))
           /\ ~trace.interactionsRead

\* a hit that hands the user a movie of their own interaction log
C15_Witness ==
    /\ ItemRequest /\ response.path = "hit" /\ response.status = 200
    /\ \E id \in SeenMovieIds(interactions, response.user) :
           id \in Range(response.body)

\* the step of a request that missed on a key and stored a value under it
CacheWriteStep ==
    /\ trace'.cacheWrite /= None
    /\ LET w == trace'.cacheWrite[1]
       IN  /\ ~Truthy(RedisGet(cache, w.key))
           /\ trace'.cacheRead = Some(w.key)
           /\ response'.path = "miss"
           /\ w.ex = 3600
           /\ cache' = [k \in DOMAIN cache \cup {w.key} |->
                           IF k = w.key THEN [value |-> w.value, ex |-> 3600]
                           ELSE cache[k]]

\* the step of Redis dropping one entry
ExpiryStep ==
    /\ \E key \in DOMAIN cache : cache' = [k \in DOMAIN cache \ {key} |-> cache[k]]
    /\ response' = response
    /\ trace' = trace

\* C16: a cache entry is created or overwritten only by a request that
\* missed on its key, with a TTL of 3600 seconds, and removed only by expiry;
\* a request that hits and the insert of an interaction leave the cache as
\* it is.
C16_CacheLifecycle ==
    [][/\ cache' /= cache => CacheWriteStep \/ ExpiryStep
       /\ (response'.path = "hit" /\ <<response, trace>>' /= <<response, trace>>)
              => cache' = cache
       /\ interactions' /= interactions => cache' = cache]_vars

\* an entry overwritten by a miss after an interaction and an expiry
C16_Witness ==
    /\ trace.cacheWrite /= None
    /\ trace.cacheWrite[1].key \in DOMAIN cache
    /\ cache[trace.cacheWrite[1].key] =
           [value |-> trace.cacheWrite[1].value, ex |-> 3600]
    /\ interactions /= << >>
    /\ Cardinality(DOMAIN cache) >= 2

\* C17: a recommendation request changes neither the movie store nor the
\* interaction log, and the log changes only by one record appended by a
\* POST /interactions/ that succeeds.
C17_StoresReadOnly ==
    [][/\ movies' = movies
       /\ (response'.op \in {"recommendations", "item"}
           /\ <<response, trace>>' /= <<response, trace>>)
              => interactions' = interactions
       /\ interactions' /= interactions
              => /\ Len(interactions') = Len(interactions) + 1
                 /\ SubSeq(interactions', 1, Len(interactions)) = interactions
                 /\ response'.op = "interaction"
                 /\ response'.status = 200]_vars

\* C20: a recommendation request answered 404 or 500 has written nothing to
\* the cache.
C20_ErrorLeavesCache ==
    ((ItemRequest \/ UserRequest) /\ response.status \in {404, 500})
        => trace.cacheWrite = None

\* C14: no user key equals an item key, whatever the user id and the movie
\* id; a user-based request reads and writes user keys only and an item-based
\* request item keys only, so every user entry holds the user-based list and
\* every item entry an item-based list.
C14_KeyNamespacesDisjoint ==
    /\ \A u \in KeyStrings, m \in KeyStrings : UserKey(u) /= ItemKey(m)
    /\ \A x \in KeyStrings :
          /\ UserRequest
                => /\ trace.cacheRead /= Some(ItemKey(x))
                   /\ trace.cacheWrite /= None => trace.cacheWrite[1].key /= ItemKey(x)
          /\ ItemRequest
                => /\ trace.cacheRead /= Some(UserKey(x))
                   /\ trace.cacheWrite /= None => trace.cacheWrite[1].key /= UserKey(x)
          /\ UserKey(x) \in DOMAIN cache
                => Split(cache[UserKey(x)].value) = Ids(movies)
          /\ ItemKey(x) \in DOMAIN cache
                => x \notin Range(Split(cache[ItemKey(x)].value))

\* a user and a movie of the same id, an id that is itself a user key, each
\* with its own entry
C14_Witness ==
    LET x == UserKey(<<"a">>)
    IN  /\ UserKey(x) \in DOMAIN cache
        /\ ItemKey(x) \in DOMAIN cache
        /\ cache[UserKey(x)].value /= cache[ItemKey(x)].value

\* the step of a user-based request
UserRequestStep ==
    /\ response'.op = "recommendations"
    /\ movies' = movies
    /\ ~ExpiryStep

\* C19: a user-based request answered 200 is a hit exactly when the user's
\* key holds an entry; a miss answers with the first ten movies of the store
\* and leaves under the key exactly the ids of its response, in response
\* order, with a TTL of 3600; a hit answers with the movies of the entry that
\* are still in the store, whatever the store's first ten are now, and
\* leaves the cache as it is; an entry stays as written until it expires.
C19_UserEntryServedUntilExpiry ==
    [][/\ \A k \in DOMAIN cache \cap DOMAIN cache' : cache'[k] = cache[k]
       /\ (UserRequestStep /\ response'.status = 200)
              => LET k == UserKey(response'.user)
                     body == response'.body
                 IN  IF k \in DOMAIN cache
                     THEN /\ response'.path = "hit"
                          /\ cache' = cache
                          /\ Range(body) =
                                 Range(Split(cache[k].value)) \cap Range(Ids(movies))
                          /\ Cardinality(Range(body)) = Len(body)
                     ELSE /\ response'.path = "miss"
                          /\ body = Ids(SubSeq(movies, 1, Min(10, Len(movies))))
                          /\ k \in DOMAIN cache'
                          /\ Split(cache'[k].value) = body
                          /\ cache'[k].ex = 3600]_vars

\* a hit on a store that has changed since the entry was written: a cached
\* movie is gone and the store's first movies are no longer the cached ones
C19_Witness ==
    /\ UserRequest /\ response.path = "hit" /\ response.status = 200
    /\ Len(response.body) >= 1
    /\ Len(Split(trace.cacheGot[1])) > Len(response.body)
    /\ Range(response.body) \subseteq Range(Ids(movies))
    /\ Range(Ids(movies)) \ Range(response.body) /= {}
    /\ cache[UserKey(response.user)].value = trace.cacheGot[1]

\* C12: whatever the number of movies in the store, an item-based miss
\* samples and ranks at most 500 candidates, every recommendation response
\* holds at most 10 movies, and every id list written to the cache, item-based
\* or user-based, holds at most 10 ids.
C12_SampleAndOutputCapped ==
    /\ trace.sampled /= None => Len(trace.sampled[1]) <= 500
    /\ trace.ranked /= None => Len(trace.ranked[1]) <= 500
    /\ (ItemRequest \/ UserRequest) => Len(response.body) <= 10
    /\ trace.cacheWrite /= None
          => /\ Len(trace.cacheWrite[1].ids) <= 10
             /\ Len(Split(trace.cacheWrite[1].value)) <= 10
    /\ \A k \in DOMAIN cache : Len(Split(cache[k].value)) <= 10

\* the caps at work: 500 of 599 candidates sampled, 10 of them returned
C12_Witness ==
    /\ ItemRequest /\ response.path = "miss" /\ response.status = 200
    /\ Len(movies) = MaxCatalogue
    /\ Len(trace.sampled[1]) = 500
    /\ Len(response.body) = 10
    /\ Len(trace.cacheWrite[1].ids) = 10
    /\ UserKey(response.user) \in DOMAIN cache
    /\ Len(Split(cache[UserKey(response.user)].value)) = 10

\* the routes that depend on verify_token
ProtectedRoutes == {"recommendations", "item", "movies", "movie", "interaction"}

\* C18: a request to a protected route whose token is missing, invalid or
\* expired is answered 401 and leaves the cache and the interaction log as
\* they are; GET /health is answered 200 {"status": "ok"} whatever the token.
C18_BadTokenIs401 ==
    [][~ExpiryStep
          => /\ (/\ credentials'.kind \in {"missing", "invalid", "expired"}
                 /\ response'.op \in ProtectedRoutes)
                    => /\ response'.status = 401
                       /\ cache' = cache
                       /\ interactions' = interactions
             /\ response'.op = "health"
                    => /\ response'.status = 200
                       /\ response'.body = << <<"o", "k">> >>]_vars

\* the id lists the fresh path of a request computes when it runs alone
FreshLists(op, user_id, movie_id_ml) ==
    IF op = "item"
    THEN {Ids(TopRecommendations(
              FilterSeen(Ranked(FindOne(movies, movie_id_ml)[1].embedding, sample),
                         SeenMovieIds(interactions, user_id)))) :
            sample \in Samples(MatchNe(movies, movie_id_ml), SampleSize)}
    ELSE {Ids(FindTop(movies))}

\* the bodies a request can answer when it runs alone: its own fresh list, or
\* on a hit the stored movies of a list that a request for the same key, by
\* any user, left in the cache
AloneBodies(r) ==
    {Ids(FindIn(movies, ids)) : ids \in FreshLists(r.op, r.user, r.movie)}
        \cup UNION {{Ids(FindIn(movies, Split(Join(ids)))) :
                        ids \in FreshLists(r.op, u, r.movie) \ {<< >>}} :
                    u \in IF r.op = "item" THEN Users ELSE {r.user}}

\* worker w has run the fresh path to its end
Wrote(w) ==
    /\ requests[w].pc = "done"
    /\ requests[w].path = "miss"
    /\ requests[w].status = 200

\* every cache entry is the complete id list of one request for its key
EntriesWhole ==
    \A k \in DOMAIN cache :
        \E w \in Workers :
            /\ Wrote(w)
            /\ requests[w].key = k
            /\ cache[k].value = Join(requests[w].ids)

\* every answer is one the request could have given alone
AnswersSerial ==
    \A w \in Workers :
        (requests[w].pc = "done" /\ requests[w].status = 200)
            => requests[w].body \in AloneBodies(requests[w])

\* the step of a worker's set leaves under its key exactly its own list and
\* leaves the other entries alone
LastWriterWins ==
    \A w \in Workers :
        (requests[w].pc = "set" /\ requests'[w].pc = "done")
            => /\ cache'[requests[w].key] =
                      [value |-> Join(requests[w].ids), ex |-> 3600]
               /\ \A k \in DOMAIN cache' \ {requests[w].key} :
                      k \in DOMAIN cache /\ cache'[k] = cache[k]

\* C11: under every interleaving of the round trips of concurrent requests,
\* each cache entry is at every point the complete id list computed by one of
\* the requests for its key, the last one to write, and each request's
\* response is a list it could have returned when run alone.
C11_ConcurrentRequestsConsistent ==
    [](EntriesWhole /\ AnswersSerial) /\ [][LastWriterWins]_vars

\* two users raced on one item key with different lists, the entry is the
\* list of one of them, and a third request was a hit
C11_Witness ==
    \E a \in Workers, b \in Workers, c \in Workers :
        /\ Wrote(a) /\ Wrote(b)
        /\ requests[a].op = "item"
        /\ requests[a].key = requests[b].key
        /\ requests[c].key = requests[a].key
        /\ requests[a].user /= requests[b].user
        /\ requests[a].ids /= requests[b].ids
        /\ requests[a].key \in DOMAIN cache
        /\ cache[requests[a].key].value = Join(requests[b].ids)
        /\ requests[c].pc = "done" /\ requests[c].path = "hit"
        /\ requests[c].status = 200
        /\ requests[c].user = requests[a].user
        /\ requests[c].body /= Ids(FindIn(movies, requests[a].ids))

\* an item-based computation answered 200 followed at once by an item-based
\* request for the same movie served from the cache, the movie store the same
FreshThenHit ==
    /\ ItemRequest /\ response.path = "miss" /\ response.status = 200
    /\ trace.cacheWrite /= None
    /\ response'.op = "item" /\ response'.movie = response.movie
    /\ response'.path = "hit" /\ response'.status = 200
    /\ trace'.cacheGot = Some(trace.cacheWrite[1].value)
    /\ movies' = movies

\* C21: with the movie store unchanged, the response of a fresh item-based
\* computation and the response of the immediately following request for the
\* same movie, served from the entry that computation wrote, list the same
\* movies in the same order, and that order is the descending-similarity rank
\* order of the top ids (the ids the computation cached).
C21_FreshAndHitInRankOrder ==
    [][FreshThenHit =>
           /\ response'.body = response.body
           /\ response.body = trace.cacheWrite[1].ids]_vars

====
